---- MODULE Spec2Model ----
(***************************************************************************)
(* State-machine model of the PDF question-answering session of app.py:    *)
(* the Streamlit session state (messages, vectorstore, qa_chain,           *)
(* processed_file, message_counter), the process-wide Chroma store the     *)
(* collections live in, and the three handlers that change them:           *)
(* "Process PDF", an ask (sample button or chat input) and "Clear Chat".   *)
(***************************************************************************)
EXTENDS Integers, Sequences, FiniteSets, TLC

VARIABLES
    messages,         \* st.session_state.messages: the conversation log
    vectorstore,      \* st.session_state.vectorstore
    qa_chain,         \* st.session_state.qa_chain
    processed_file,   \* st.session_state.processed_file
    message_counter,  \* st.session_state.message_counter
    chroma,           \* the in-process Chroma store: collection name -> stored chunks
    hash_seed,        \* Python's per-process str hash: file name -> hash value
    ui                \* what the last handler reported on the page

vars == <<messages, vectorstore, qa_chain, processed_file, message_counter,
          chroma, hash_seed, ui>>

----------------------------------------------------------------------------
(* Bounds of the model *)

\* most pages in an uploaded document
MaxPages == 2
\* the log is not extended past this many turns
MaxTurns == 3
\* a collection is not extended past this many chunks
MaxStored == 3

(* Constants of the program *)

chunk_size == 1000
chunk_overlap == 200
search_k == 4
collection_modulus == 10000

----------------------------------------------------------------------------
(* Values *)

\* Python's None, for the three session fields that hold an object or None
None == [obj |-> "None"]
\* processed_file before any successful ingest
NoFile == "<None>"

FileNames == {"a.pdf", "b.pdf"}

\* hash() of a str is salted per process; the hash values of the model's
\* file names, in a process where they share a collection name and in one
\* where they do not
HashSeeds ==
    { [n \in FileNames |-> IF n = "a.pdf" THEN 3 ELSE 10003],
      [n \in FileNames |-> IF n = "a.pdf" THEN 3 ELSE 4] }

\* A page's extracted text, by its length and whether it is whitespace only.
\* A page that is not blank is an unbroken run of non-whitespace characters.
Page(n, blank) == [len |-> n, blank |-> blank]

\* uploaded_file: a name and the pages PyPDFLoader extracts from its bytes
Document(name, pages) == [name |-> name, pages |-> pages]

\* the documents uploaded to the session
Documents ==
    { Document("a.pdf", << Page(300, FALSE) >>),
      Document("a.pdf", << Page(300, FALSE), Page(400, FALSE) >>),
      Document("b.pdf", << Page(1001, FALSE) >>),
      Document("b.pdf", << Page(5, TRUE) >>) }

\* the documents the splitter is run on
PageTexts ==
    { Page(0, FALSE), Page(5, TRUE), Page(300, FALSE), Page(699, FALSE),
      Page(999, FALSE), Page(1000, FALSE), Page(1001, FALSE), Page(2500, FALSE) }

PageSeqs == UNION { [1..n -> PageTexts] : n \in 0..MaxPages }

SplitDocuments == { Document("a.pdf", p) : p \in PageSeqs }

sample_questions ==
    << "What is the main topic?", "Summarize the key points",
       "What are the conclusions?", "List the important findings" >>

\* the sample buttons pressed
SampleButtons == { 2 }

\* what the user may type into st.chat_input
Prompts == { "Who wrote it?" }

\* what the generation service may return as result["result"]
AnswerTexts == { "", "It is about whales" }

\* where process_pdf may raise
Stages == { "load", "split", "embed", "index", "chain" }

----------------------------------------------------------------------------
(* The text splitter *)

\* RecursiveCharacterTextSplitter on one unbroken text of n characters: a
\* window of chunk_size characters that restarts chunk_overlap characters
\* before the end of the previous one, until the text is used up.
RECURSIVE Windows(_, _)
Windows(n, start) ==
    IF n - start <= chunk_size
    THEN << [start |-> start, len |-> n - start] >>
    ELSE << [start |-> start, len |-> chunk_size] >>
         \o Windows(n, start + (chunk_size - chunk_overlap))

\* total number of characters extracted from a document
RECURSIVE TextLen(_, _)
TextLen(pages, i) ==
    IF i > Len(pages) THEN 0 ELSE pages[i].len + TextLen(pages, i + 1)

\* split_text of one page: chunks are stripped and empty ones are dropped
split_text(page) ==
    IF page.len = 0 \/ page.blank THEN <<>> ELSE Windows(page.len, 0)

\* split_documents: every page is split on its own, in page order, and each
\* chunk carries the metadata of its page
RECURSIVE split_pages(_, _)
split_pages(doc, i) ==
    IF i > Len(doc.pages) THEN <<>>
    ELSE LET w == split_text(doc.pages[i])
         IN  [ j \in 1..Len(w) |->
                 [doc |-> doc, page |-> i - 1, start |-> w[j].start, len |-> w[j].len] ]
             \o split_pages(doc, i + 1)

\* split_documents over the text of all pages joined into one
split_documents_Joined(doc) ==
    LET n == TextLen(doc.pages, 1)
        w == IF n = 0 \/ \A i \in DOMAIN doc.pages : doc.pages[i].blank
             THEN <<>> ELSE Windows(n, 0)
    IN  [ j \in 1..Len(w) |->
            [doc |-> doc, page |-> 0, start |-> w[j].start, len |-> w[j].len] ]

split_documents(doc) == split_pages(doc, 1)

----------------------------------------------------------------------------
(* The Chroma store *)

\* collection_name: "pdf_collection_" followed by this number
CollectionName(file_name) == hash_seed[file_name] % collection_modulus

CollectionNames ==
    { seed[n] % collection_modulus : seed \in HashSeeds, n \in FileNames }

\* Chroma.from_documents: the collection of that name is fetched, or created
\* empty when there is none, and the chunks are added to it under fresh ids
from_documents(db, collection_name, texts) ==
    [db EXCEPT ![collection_name] = @ \o texts]

\* the embedding service, as a fixed map from a text to a point
embed_query(question) == Len(question) % 7
embed_chunk(chunk) == (chunk.page * 3 + chunk.start + chunk.len) % 7

Distance(question, chunk) ==
    LET a == embed_query(question)
        b == embed_chunk(chunk)
    IN  IF a >= b THEN a - b ELSE b - a

\* the n nearest stored chunks not yet taken, nearest first, ties in
\* insertion order
RECURSIVE Nearest(_, _, _, _)
Nearest(coll, question, taken, n) ==
    IF n = 0 \/ taken = DOMAIN coll THEN <<>>
    ELSE LET rest == DOMAIN coll \ taken
             best == CHOOSE i \in rest : \A j \in rest :
                        \/ Distance(question, coll[i]) < Distance(question, coll[j])
                        \/ /\ Distance(question, coll[i]) = Distance(question, coll[j])
                           /\ i <= j
         IN  << coll[best] >> \o Nearest(coll, question, taken \cup {best}, n - 1)

\* the retriever of the chain: similarity search with k = 4
similarity_search(coll, question) == Nearest(coll, question, {}, search_k)

----------------------------------------------------------------------------
(* process_pdf and get_answer *)

\* Python truthiness of an object-or-None value, as in "if qa_chain:"
Truthy(x) == x # None

\* process_pdf(uploaded_file, api_key) with the store it runs against; fault
\* names the stage that raises, or "none". The result carries the returned
\* triple, the store as process_pdf leaves it, what it printed, and whether
\* the temporary copy of the PDF it wrote is still there when it returns:
\* os.unlink is the last statement of the try block.
process_pdf(uploaded_file, fault, db) ==
    LET texts == split_documents(uploaded_file)
        collection_name == CollectionName(uploaded_file.name)
        store == [obj |-> "Chroma", collection |-> collection_name]
        chain == [obj |-> "RetrievalQA", retriever |-> store]
        split_reported == IF fault \in {"load", "split"} THEN -1 ELSE Len(texts)
    IN  IF fault \in {"load", "split", "embed", "index"}
        THEN [vectorstore |-> None, qa_chain |-> None, num_chunks |-> 0,
              db |-> db, error |-> TRUE, split_reported |-> split_reported,
              tmp_left |-> TRUE]
        ELSE IF fault = "chain"
        THEN [vectorstore |-> None, qa_chain |-> None, num_chunks |-> 0,
              db |-> from_documents(db, collection_name, texts),
              error |-> TRUE, split_reported |-> split_reported,
              tmp_left |-> TRUE]
        ELSE [vectorstore |-> store, qa_chain |-> chain, num_chunks |-> Len(texts),
              db |-> from_documents(db, collection_name, texts),
              error |-> FALSE, split_reported |-> split_reported,
              tmp_left |-> FALSE]

\* the answer get_answer returns when the chain raises
NoAnswer == "<None>"

\* Python truthiness of an answer, as in "if answer:": None and "" are false
TruthyText(answer) == answer # NoAnswer /\ answer # ""

\* get_answer(question, qa_chain): reply is what the chain's invoke does,
\* raise (ok = FALSE) or return the generated text
get_answer(question, chain, reply, db) ==
    IF reply.ok
    THEN [answer |-> reply.text,
          sources |-> similarity_search(db[chain.retriever.collection], question),
          error |-> FALSE]
    ELSE [answer |-> NoAnswer, sources |-> <<>>, error |-> TRUE]

Replies == { [ok |-> FALSE, text |-> NoAnswer] }
           \cup { [ok |-> TRUE, text |-> t] : t \in AnswerTexts }

----------------------------------------------------------------------------
(* The handlers *)

Init ==
    /\ messages = <<>>
    /\ vectorstore = None
    /\ qa_chain = None
    /\ processed_file = NoFile
    /\ message_counter = 0
    /\ chroma = [c \in CollectionNames |-> <<>>]
    /\ hash_seed \in HashSeeds
    /\ ui = [op |-> "start"]

\* ProcessPDF without the test of what process_pdf returned
ProcessPDF_Unchecked(uploaded_file, fault) ==
    LET r == process_pdf(uploaded_file, fault, chroma)
    IN  /\ Len(r.db[CollectionName(uploaded_file.name)]) <= MaxStored
        /\ chroma' = r.db
        /\ vectorstore' = r.vectorstore
        /\ qa_chain' = r.qa_chain
        /\ processed_file' = IF r.error THEN NoFile ELSE uploaded_file.name
        /\ messages' = <<>>
        /\ message_counter' = 0
        /\ ui' = [op |-> "process", file |-> uploaded_file,
                  error |-> r.error, split_reported |-> r.split_reported,
                  num_chunks |-> r.num_chunks, tmp_left |-> r.tmp_left]
        /\ UNCHANGED hash_seed

\* ProcessPDF that keeps the log and its counter across a successful ingest
ProcessPDF_KeepsLog(uploaded_file, fault) ==
    LET r == process_pdf(uploaded_file, fault, chroma)
    IN  /\ Len(r.db[CollectionName(uploaded_file.name)]) <= MaxStored
        /\ chroma' = r.db
        /\ IF Truthy(r.vectorstore) /\ Truthy(r.qa_chain)
           THEN /\ vectorstore' = r.vectorstore
                /\ qa_chain' = r.qa_chain
                /\ processed_file' = uploaded_file.name
           ELSE UNCHANGED <<vectorstore, qa_chain, processed_file>>
        /\ UNCHANGED <<messages, message_counter>>
        /\ ui' = [op |-> "process", file |-> uploaded_file,
                  error |-> r.error, split_reported |-> r.split_reported,
                  num_chunks |-> r.num_chunks, tmp_left |-> r.tmp_left]
        /\ UNCHANGED hash_seed

\* the "Process PDF" button
ProcessPDF(uploaded_file, fault) ==
    LET r == process_pdf(uploaded_file, fault, chroma)
    IN  /\ Len(r.db[CollectionName(uploaded_file.name)]) <= MaxStored
        /\ chroma' = r.db
        /\ IF Truthy(r.vectorstore) /\ Truthy(r.qa_chain)
           THEN /\ vectorstore' = r.vectorstore
                /\ qa_chain' = r.qa_chain
                /\ processed_file' = uploaded_file.name
                /\ messages' = <<>>
                /\ message_counter' = 0
           ELSE UNCHANGED <<vectorstore, qa_chain, processed_file,
                            messages, message_counter>>
        /\ ui' = [op |-> "process", file |-> uploaded_file,
                  error |-> r.error, split_reported |-> r.split_reported,
                  num_chunks |-> r.num_chunks, tmp_left |-> r.tmp_left]
        /\ UNCHANGED hash_seed

\* AskTurns without the "if answer:" test: an assistant turn is logged for
\* every ask
AskTurns_Unchecked(question, r) ==
    << [role |-> "user", content |-> question, id |-> message_counter + 1],
       [role |-> "assistant", content |-> r.answer,
        sources |-> r.sources, id |-> message_counter + 2] >>

\* AskTurns without the second increment of message_counter
AskTurns_SameId(question, r) ==
    LET user == [role |-> "user", content |-> question, id |-> message_counter + 1]
        assistant == [role |-> "assistant", content |-> r.answer,
                      sources |-> r.sources, id |-> message_counter + 1]
    IN  IF TruthyText(r.answer) THEN << user, assistant >> ELSE << user >>

\* the turns an ask with a set qa_chain adds to the log
AskTurns(question, r) ==
    LET user == [role |-> "user", content |-> question, id |-> message_counter + 1]
        assistant == [role |-> "assistant", content |-> r.answer,
                      sources |-> r.sources, id |-> message_counter + 2]
    IN  IF TruthyText(r.answer)
        THEN << user, assistant >>
        ELSE << user >>

\* AskSample with the user turn logged before qa_chain is tested
AskSample_LogsFirst(i, reply) ==
    LET question == sample_questions[i]
        r == get_answer(question, qa_chain, reply, chroma)
        user == [role |-> "user", content |-> question, id |-> message_counter + 1]
    IN  /\ IF Truthy(qa_chain)
           THEN /\ Len(messages) + Len(AskTurns(question, r)) <= MaxTurns
                /\ messages' = messages \o AskTurns(question, r)
                /\ message_counter' = message_counter + Len(AskTurns(question, r))
                /\ ui' = [op |-> "ask", via |-> "sample", question |-> question,
                          invoked |-> TRUE, warning |-> FALSE,
                          error |-> r.error, answer |-> r.answer]
           ELSE /\ Len(messages) + 1 <= MaxTurns
                /\ messages' = Append(messages, user)
                /\ message_counter' = message_counter + 1
                /\ ui' = [op |-> "ask", via |-> "sample", question |-> question,
                          invoked |-> FALSE, warning |-> TRUE,
                          error |-> FALSE, answer |-> NoAnswer]
        /\ UNCHANGED <<vectorstore, qa_chain, processed_file, chroma, hash_seed>>

\* a sample-question button
AskSample(i, reply) ==
    LET question == sample_questions[i]
        r == get_answer(question, qa_chain, reply, chroma)
    IN  /\ IF Truthy(qa_chain)
           THEN /\ Len(messages) + Len(AskTurns(question, r)) <= MaxTurns
                /\ messages' = messages \o AskTurns(question, r)
                /\ message_counter' = message_counter + Len(AskTurns(question, r))
                /\ ui' = [op |-> "ask", via |-> "sample", question |-> question,
                          invoked |-> TRUE, warning |-> FALSE,
                          error |-> r.error, answer |-> r.answer]
           ELSE /\ UNCHANGED <<messages, message_counter>>
                /\ ui' = [op |-> "ask", via |-> "sample", question |-> question,
                          invoked |-> FALSE, warning |-> TRUE,
                          error |-> FALSE, answer |-> NoAnswer]
        /\ UNCHANGED <<vectorstore, qa_chain, processed_file, chroma, hash_seed>>

\* AskChat that forgets the chain and the store when the chain raises
AskChat_DropsChain(prompt, reply) ==
    LET r == get_answer(prompt, qa_chain, reply, chroma)
    IN  /\ Truthy(qa_chain)
        /\ Len(messages) + Len(AskTurns(prompt, r)) <= MaxTurns
        /\ messages' = messages \o AskTurns(prompt, r)
        /\ message_counter' = message_counter + Len(AskTurns(prompt, r))
        /\ ui' = [op |-> "ask", via |-> "chat", question |-> prompt,
                  invoked |-> TRUE, warning |-> FALSE,
                  error |-> r.error, answer |-> r.answer]
        /\ IF r.error
           THEN vectorstore' = None /\ qa_chain' = None
           ELSE UNCHANGED <<vectorstore, qa_chain>>
        /\ UNCHANGED <<processed_file, chroma, hash_seed>>

\* the chat input, which the page shows only when qa_chain is set
AskChat(prompt, reply) ==
    LET r == get_answer(prompt, qa_chain, reply, chroma)
    IN  /\ Truthy(qa_chain)
        /\ Len(messages) + Len(AskTurns(prompt, r)) <= MaxTurns
        /\ messages' = messages \o AskTurns(prompt, r)
        /\ message_counter' = message_counter + Len(AskTurns(prompt, r))
        /\ ui' = [op |-> "ask", via |-> "chat", question |-> prompt,
                  invoked |-> TRUE, warning |-> FALSE,
                  error |-> r.error, answer |-> r.answer]
        /\ UNCHANGED <<vectorstore, qa_chain, processed_file, chroma, hash_seed>>

\* ClearChat that removes the last turn only
ClearChat_DropsLast ==
    /\ Truthy(qa_chain)
    /\ messages # <<>>
    /\ messages' = SubSeq(messages, 1, Len(messages) - 1)
    /\ message_counter' = message_counter - 1
    /\ ui' = [op |-> "clear", cleared |-> 1]
    /\ UNCHANGED <<vectorstore, qa_chain, processed_file, chroma, hash_seed>>

\* the "Clear Chat" button, which the page shows only when qa_chain is set
ClearChat ==
    /\ Truthy(qa_chain)
    /\ messages' = <<>>
    /\ message_counter' = 0
    /\ ui' = [op |-> "clear", cleared |-> Len(messages)]
    /\ UNCHANGED <<vectorstore, qa_chain, processed_file, chroma, hash_seed>>

Process == \E d \in Documents, f \in Stages \cup {"none"} : ProcessPDF(d, f)
Sample == \E i \in SampleButtons, reply \in Replies : AskSample(i, reply)
Chat == \E p \in Prompts, reply \in Replies : AskChat(p, reply)

Next == Process \/ Sample \/ Chat \/ ClearChat

Spec == Init /\ [][Next]_vars

----------------------------------------------------------------------------
(* The load and split steps of process_pdf on their own, over every document
   of up to MaxPages pages *)

SplitInit ==
    /\ messages = <<>>
    /\ vectorstore = None
    /\ qa_chain = None
    /\ processed_file = NoFile
    /\ message_counter = 0
    /\ chroma = [c \in CollectionNames |-> <<>>]
    /\ hash_seed \in HashSeeds
    /\ ui \in { [op |-> "upload", file |-> d] : d \in SplitDocuments }

\* loader.load() and text_splitter.split_documents(documents), and the two
\* counts process_pdf prints after them
LoadAndSplit ==
    /\ ui.op = "upload"
    /\ ui' = [op |-> "split", file |-> ui.file,
              loaded |-> Len(ui.file.pages),
              split_reported |-> Len(split_documents(ui.file))]
    /\ UNCHANGED <<messages, vectorstore, qa_chain, processed_file,
                   message_counter, chroma, hash_seed>>

SplitNext == LoadAndSplit

SplitSpec == SplitInit /\ [][SplitNext]_vars

----------------------------------------------------------------------------
(* Properties of the session *)

IsPrefix(s, t) == Len(s) <= Len(t) /\ SubSeq(t, 1, Len(s)) = s

\* the session is Ready
Ready == Truthy(qa_chain)

\* C1: while qa_chain is unset, every ask is reported as "not ready": the
\* warning is shown, the chain is not invoked, no answer comes back and the
\* log and its counter are as before.
C1_AskBeforeIngestNotReady ==
    [][ (~Ready /\ ui'.op = "ask")
        => /\ ui'.warning
           /\ ~ui'.invoked
           /\ ui'.answer = NoAnswer
           /\ UNCHANGED <<messages, message_counter>> ]_vars

\* an ask was made in a session that never ingested, and was warned off
C1_Witness ==
    /\ ui.op = "ask"
    /\ ~Ready
    /\ ui.warning
    /\ messages = <<>>

\* C5: an ask, answered or failed, leaves the collections, the vectorstore,
\* the chain and the processed file name as they were.
C5_AskReadOnly ==
    [][ ui'.op = "ask"
        => UNCHANGED <<chroma, vectorstore, qa_chain, processed_file>> ]_vars

\* a failed ask was made against a collection that holds chunks
C5_Witness ==
    /\ ui.op = "ask"
    /\ ui.invoked
    /\ ui.error
    /\ Ready
    /\ chroma[vectorstore.collection] # <<>>

\* C6: when the answer call fails in a Ready session, the collections and the
\* readiness are unchanged, the turns logged before are unchanged, and no
\* assistant turn is added.
C6_FailedAskAbortsAlone ==
    [][ (Ready /\ ui'.op = "ask" /\ ui'.error)
        => /\ UNCHANGED <<chroma, vectorstore, qa_chain, processed_file>>
           /\ IsPrefix(messages, messages')
           /\ \A j \in (Len(messages) + 1)..Len(messages') :
                 messages'[j].role # "assistant" ]_vars

\* an ask failed after an earlier ask had been answered
C6_Witness ==
    /\ ui.op = "ask"
    /\ ui.error
    /\ Len(messages) = 3
    /\ messages[2].role = "assistant"
    /\ messages[3].role = "user"

\* C7: every step leaves the log as it was, adds turns at its end, or empties it.
C7_LogAppendOnly ==
    [][ \/ messages' = messages
        \/ IsPrefix(messages, messages')
        \/ messages' = <<>> ]_vars

\* a log of three turns was emptied by Clear Chat
C7_Witness ==
    /\ ui.op = "clear"
    /\ ui.cleared = 3
    /\ messages = <<>>

\* C8: the ids of the logged turns increase strictly in log order, and
\* message_counter is the id of the last turn, or 0 for the empty log.
C8_SequenceIds ==
    /\ \A i, j \in DOMAIN messages : i < j => messages[i].id < messages[j].id
    /\ message_counter = IF messages = <<>> THEN 0 ELSE messages[Len(messages)].id

\* a log of three turns, made by two asks
C8_Witness ==
    /\ Len(messages) = 3
    /\ message_counter = 3

\* C2, as claimed: a failed ingest leaves the session fields as they were,
\* and a Ready session keeps the contents of the collection it queries.
C2_FailedIngestKeepsState ==
    [][ (ui'.op = "process" /\ ui'.error)
        => /\ UNCHANGED <<vectorstore, qa_chain, processed_file>>
           /\ Ready =>
                chroma'[vectorstore.collection] = chroma[vectorstore.collection] ]_vars

\* C3, as claimed: after a failed ingest the session is Unready.
C3_FailedIngestUnready ==
    (ui.op = "process" /\ ui.error) => ~Ready

\* C3, amended: a failed ingest leaves vectorstore, qa_chain, processed_file,
\* the log and its counter as they were, so readiness is what it was before.
C3_FailedIngestKeepsSession ==
    [][ (ui'.op = "process" /\ ui'.error)
        => UNCHANGED <<vectorstore, qa_chain, processed_file,
                       messages, message_counter>> ]_vars

\* an ingest failed in a session that was Ready and had turns logged
C3_Witness ==
    /\ ui.op = "process"
    /\ ui.error
    /\ Ready
    /\ messages # <<>>

\* C4, as claimed: when a Ready session ingests a document whose name maps
\* to the collection it is bound to, the collection the chain queries holds
\* afterwards exactly the chunks of the document just ingested.
C4_ReingestReplaces ==
    [][ ( /\ Ready
          /\ ui'.op = "process"
          /\ ~ui'.error
          /\ vectorstore'.collection = vectorstore.collection )
        => chroma'[vectorstore'.collection] = split_documents(ui'.file) ]_vars

TextPages(doc) ==
    { i \in DOMAIN doc.pages : doc.pages[i].len > 0 /\ ~doc.pages[i].blank }

\* the document is not empty and its text is shorter than chunk_size
ShortDocument(doc) ==
    /\ TextLen(doc.pages, 1) > 0
    /\ TextLen(doc.pages, 1) < chunk_size

C11_AnsweredAskLogsBothTurns ==
    [][ (Ready /\ ui'.op = "ask" /\ ui'.invoked /\ ~ui'.error)
        => LET n == Len(messages)
           IN  /\ Len(messages') = n + 2
               /\ IsPrefix(messages, messages')
               /\ messages'[n + 1].role = "user"
               /\ messages'[n + 1].content = ui'.question
               /\ messages'[n + 2].role = "assistant"
               /\ messages'[n + 2].content = ui'.answer
               /\ messages'[n + 2].sources =
                     similarity_search(chroma[vectorstore.collection],
                                       ui'.question) ]_vars

\* C12, as claimed: when an ingest call has returned, the temporary copy of
\* the PDF it wrote no longer exists.
C12_TemporaryCopyRemoved ==
    ui.op = "process" => ~ui.tmp_left

\* the chunks a collection holds
Stored(collection_name) ==
    { chroma[collection_name][i] : i \in DOMAIN chroma[collection_name] }

\* C13: vectorstore, qa_chain and processed_file are all unset or all set;
\* when set, the chain retrieves from the vectorstore and the vectorstore is
\* the collection of the processed file; right after a successful ingest they
\* are those of that ingest and the log is empty; and every logged assistant
\* turn cites chunks of the collection now bound.
C13_SessionBoundToOneIngest ==
    /\ \/ vectorstore = None /\ qa_chain = None /\ processed_file = NoFile
       \/ vectorstore # None /\ qa_chain # None /\ processed_file # NoFile
    /\ Ready =>
          /\ qa_chain.retriever = vectorstore
          /\ vectorstore.collection = CollectionName(processed_file)
    /\ ~Ready => messages = <<>>
    /\ (ui.op = "process" /\ ~ui.error) =>
          /\ processed_file = ui.file.name
          /\ vectorstore.collection = CollectionName(ui.file.name)
          /\ messages = <<>>
    /\ \A i \in DOMAIN messages :
          messages[i].role = "assistant" =>
             \A j \in DOMAIN messages[i].sources :
                messages[i].sources[j] \in Stored(vectorstore.collection)

\* a session that ingested a.pdf and then b.pdf into another collection, and
\* has an answered ask logged against the collection of b.pdf
C13_Witness ==
    /\ Ready
    /\ processed_file = "b.pdf"
    /\ vectorstore.collection # CollectionName("a.pdf")
    /\ chroma[CollectionName("a.pdf")] # <<>>
    /\ Len(messages) = 2
    /\ messages[2].role = "assistant"
    /\ messages[2].sources # <<>>

====
